---- MODULE Spec2Model ----
(***************************************************************************)
(* The CricSaga match engine: the `games` dictionary of src/constants.py   *)
(* and the handlers of src/handlers.py, src/helper.py, src/commands.py and *)
(* src/admin.py that create, configure, play and remove a match.           *)
(*                                                                         *)
(* main.py builds the Application without concurrent_updates, so updates   *)
(* are processed one at a time: every handler runs to completion before    *)
(* the next one starts, and each handler is one action of Spec.            *)
(* SpecStepwise follows handle_toss and handle_bowl through their delays.  *)
(*                                                                         *)
(* games is the dictionary itself; keyboard is the inline keyboard of each  *)
(* match's message, last is the bot's answer to the latest update, and     *)
(* running is the handler that is suspended at an `await asyncio.sleep`.   *)
(*                                                                         *)
(* A Python dict key that is absent is modelled by a sentinel value of the *)
(* field's type (NoUser, NoMode, NoNum); reading an absent key raises      *)
(* KeyError, which every handler catches and logs ("error" reply).         *)
(***************************************************************************)
EXTENDS Integers, Sequences, FiniteSets, TLC

VARIABLES build, games, keyboard, last, stale, running

vars == <<build, games, keyboard, last, stale, running>>

(* ---------------------------------------------------------------------- *)
(* Input sets and bounds                                                   *)
(* ---------------------------------------------------------------------- *)

\* The two programs of the repository that run the match engine: main.py
\* (handlers.py, helper.py, commands.py, admin.py; All_files.py is the same
\* code in one file) and Updates_bott.py.
Builds == {"main", "Updates_bott"}

\* Telegram users that send updates; u1 is registered and starts games.
Users == {"u1", "u2"}
REGISTERED_USERS == {"u1"}
BOT_ADMINS == {"u1"}

\* create_game draws ids from 1000..9999; the model keeps one slot.
GameIds == {"g1"}

Modes == {"classic", "quick", "survival"}

\* Values carried by the wickets_/overs_ callbacks: the keyboard of keys.py
\* offers 1, 3, 5 and 11 wickets, and int() takes any number.
WicketNums == {1, 2, 11}
OverNums == {1}

\* Values carried by the bat_/bowl_ callbacks.
BatNums == {4}
BowlNums == 1..6

\* random.randint(1, 6)
Dice == 1..6

\* No more than MaxBalls balls are bowled in one innings of the model.
MaxBalls == 6

\* A callback that does not come from the keyboard the match's message shows
\* (a second press, a press racing with an edit, a forged callback) is stale:
\* the dispatcher of main.py routes callbacks by their prefix only.  The model
\* lets at most MaxStale stale callbacks reach a match, each before the
\* ShortBalls-th ball of an innings, and follows a match that received one for
\* at most ShortBalls balls per innings.
MaxStale == 1
ShortBalls == 2

\* Absent dict keys.
NoUser == "none"
NoMode == "none"
NoNum == -1
\* float('inf')
Inf == -2

(* ---------------------------------------------------------------------- *)
(* helper.py                                                               *)
(* ---------------------------------------------------------------------- *)

\* Every user passes the admin test.
check_admin_m(user_id) == TRUE

check_admin(user_id) == user_id \in BOT_ADMINS

is_registered(user_id) == user_id \in REGISTERED_USERS

\* The creator is entered as the player who calls the toss.
create_game_m(creator_id) ==
    [ creator |-> creator_id,
      status |-> "config",
      score |-> <<0, 0>>,
      wickets |-> 0,
      balls |-> 0,
      current_innings |-> 1,
      this_over |-> <<>>,
      boundaries |-> <<0, 0>>,
      sixes |-> <<0, 0>>,
      dot_balls |-> 0,
      \* keys the handlers add later
      mode |-> NoMode,
      max_wickets |-> NoNum,
      max_overs |-> NoNum,
      joiner |-> NoUser,
      choosing_player |-> creator_id,
      toss_winner |-> NoUser,
      batsman |-> NoUser,
      bowler |-> NoUser,
      batsman_choice |-> NoNum,
      first_innings_wickets |-> NoNum,
      first_innings_score |-> NoNum,
      first_innings_overs |-> <<NoNum, NoNum>>,
      first_innings_boundaries |-> NoNum,
      first_innings_sixes |-> NoNum,
      target |-> NoNum ]

create_game(creator_id) ==
    [ creator |-> creator_id,
      status |-> "config",
      score |-> <<0, 0>>,
      wickets |-> 0,
      balls |-> 0,
      current_innings |-> 1,
      this_over |-> <<>>,
      boundaries |-> <<0, 0>>,
      sixes |-> <<0, 0>>,
      dot_balls |-> 0,
      \* keys the handlers add later
      mode |-> NoMode,
      max_wickets |-> NoNum,
      max_overs |-> NoNum,
      joiner |-> NoUser,
      choosing_player |-> NoUser,
      toss_winner |-> NoUser,
      batsman |-> NoUser,
      bowler |-> NoUser,
      batsman_choice |-> NoNum,
      first_innings_wickets |-> NoNum,
      first_innings_score |-> NoNum,
      first_innings_overs |-> <<NoNum, NoNum>>,
      first_innings_boundaries |-> NoNum,
      first_innings_sixes |-> NoNum,
      target |-> NoNum ]

\* game.get(key, float('inf'))
GetOrInf(v) == IF v = NoNum THEN Inf ELSE v

\* The wicket limit compared with > instead of >=.
should_end_innings_m(game) ==
    LET max_wickets == GetOrInf(game.max_wickets)
        max_overs == GetOrInf(game.max_overs)
        target == GetOrInf(game.target)
    IN  \/ (max_wickets # Inf /\ game.wickets > max_wickets)
        \/ (max_overs # Inf /\ game.balls >= max_overs * 6)
        \/ (game.current_innings = 2 /\ target # Inf /\ game.score[2] >= target)

should_end_innings(game) ==
    LET max_wickets == GetOrInf(game.max_wickets)
        max_overs == GetOrInf(game.max_overs)
        target == GetOrInf(game.target)
    IN  \/ (max_wickets # Inf /\ game.wickets >= max_wickets)
        \/ (max_overs # Inf /\ game.balls >= max_overs * 6)
        \/ (game.current_innings = 2 /\ target # Inf /\ game.score[2] >= target)

store_first_innings(game) ==
    [game EXCEPT
        !.first_innings_wickets = game.wickets,
        !.first_innings_score = game.score[1],
        !.first_innings_overs = <<game.balls \div 6, game.balls % 6>>,
        !.first_innings_boundaries = game.boundaries[1],
        !.first_innings_sixes = game.sixes[1],
        !.target = game.score[1] + 1]


(* ---------------------------------------------------------------------- *)
(* What the bot answers: the handler that ran and the message it sent      *)
(* (query.answer alert, edited message, or the logged exception).          *)
(* ---------------------------------------------------------------------- *)

NoSummary ==
    [ winner |-> "none", margin |-> "none", margin_n |-> 0,
      second_innings |-> <<0, 0, 0>> ]

Reply(op, reply) == [op |-> op, reply |-> reply, summary |-> NoSummary]

\* An alert or a logged exception: nothing is written, the message is not edited.
Answer(op, reply) ==
    /\ last' = Reply(op, reply)
    /\ UNCHANGED <<games, keyboard>>

\* del d[game_id]
Remove(d, game_id) == [g \in DOMAIN d \ {game_id} |-> d[g]]

\* d[game_id] = v
Put(d, game_id, v) ==
    [g \in DOMAIN d \cup {game_id} |-> IF g = game_id THEN v ELSE d[g]]

(* ---------------------------------------------------------------------- *)
(* commands.py, admin.py                                                   *)
(* ---------------------------------------------------------------------- *)

\* The id is not drawn again when it is in use: the match that has it is
\* overwritten.
gameon_m(user_id, game_id) ==
    IF ~is_registered(user_id)
    THEN Answer("gameon", "register_first")
    ELSE /\ games' = Put(games, game_id, create_game(user_id))
         /\ keyboard' = Put(keyboard, game_id, "mode")
         /\ last' = Reply("gameon", "modes")

\* game_id is the id create_game draws (helper.py lines 30-32): an id that is
\* in use is drawn again.
gameon(user_id, game_id) ==
    IF ~is_registered(user_id)
    THEN Answer("gameon", "register_first")
    ELSE /\ game_id \notin DOMAIN games
         /\ games' = Put(games, game_id, create_game(user_id))
         /\ keyboard' = Put(keyboard, game_id, "mode")
         /\ last' = Reply("gameon", "modes")

stop_games(user_id) ==
    IF ~check_admin(user_id)
    THEN Answer("stopgames", "unauthorized")
    ELSE /\ games' = [g \in {} |-> create_game(NoUser)]
         /\ keyboard' = [g \in {} |-> "none"]
         /\ last' = Reply("stopgames", "stopped")

(* ---------------------------------------------------------------------- *)
(* handlers.py: configuration and matchmaking                              *)
(* ---------------------------------------------------------------------- *)

SetMode(game, mode) ==
    LET g == [game EXCEPT !.mode = mode, !.status = "setup"]
    IN  IF mode = "survival"
        THEN [g EXCEPT !.max_wickets = 1, !.max_overs = Inf]
        ELSE IF mode = "quick"
        THEN [g EXCEPT !.max_wickets = Inf]
        ELSE g

handle_mode(game_id, mode) ==
    IF game_id \notin DOMAIN games
    THEN Answer("mode", "not_found")
    ELSE /\ games' = [games EXCEPT ![game_id] = SetMode(@, mode)]
         /\ keyboard' = [keyboard EXCEPT ![game_id] =
                            IF mode = "survival" THEN "join"
                            ELSE IF mode = "quick" THEN "overs" ELSE "wickets"]
         /\ last' = Reply("mode", "mode_set")

SetWickets(game, wickets) == [game EXCEPT !.max_wickets = wickets]

handle_wickets(game_id, wickets) ==
    IF game_id \notin DOMAIN games
    THEN Answer("wickets", "error")
    ELSE /\ games' = [games EXCEPT ![game_id] = SetWickets(@, wickets)]
         /\ keyboard' = [keyboard EXCEPT ![game_id] = "overs"]
         /\ last' = Reply("wickets", "wickets_set")

SetOvers(game, overs) == [game EXCEPT !.max_overs = overs, !.status = "waiting"]

\* the "Game Ready" text of lines 97-103 reads max_wickets and mode
ReadyFails(game) == game.max_wickets = NoNum \/ game.mode = NoMode

handle_vers(game_id, overs) ==
    IF game_id \notin DOMAIN games
    THEN Answer("overs", "not_found")
    ELSE /\ games' = [games EXCEPT ![game_id] = SetOvers(@, overs)]
         /\ IF ReadyFails(games[game_id])
            THEN /\ last' = Reply("overs", "error")
                 /\ UNCHANGED keyboard
            ELSE /\ last' = Reply("overs", "ready")
                 /\ keyboard' = [keyboard EXCEPT ![game_id] = "join"]

\* The check for a second player left out.
JoinAllowed_m(game, user_id) == user_id # game.creator

\* lines 129-135
JoinAllowed(game, user_id) == user_id # game.creator /\ game.joiner = NoUser

\* lines 137-148
Join(game, user_id) ==
    [game EXCEPT !.joiner = user_id, !.status = "toss", !.choosing_player = user_id]

handle_join(game_id, user_id) ==
    IF game_id \notin DOMAIN games
    THEN Answer("join", "not_found")
    ELSE IF ~JoinAllowed(games[game_id], user_id)
    THEN Answer("join", IF user_id = games[game_id].creator
                        THEN "own_game" ELSE "two_players")
    ELSE /\ games' = [games EXCEPT ![game_id] = Join(@, user_id)]
         /\ keyboard' = [keyboard EXCEPT ![game_id] = "toss"]
         /\ last' = Reply("join", "joined")

\* The caller wins whatever the dice show.
TossWinner_m(game, choice, dice1, dice2) == game.choosing_player

\* lines 186-192
TossWinner(game, choice, dice1, dice2) ==
    LET total == dice1 + dice2
        is_odd == total % 2 = 1
        choice_correct == (choice = "odd" /\ is_odd) \/ (choice = "even" /\ ~is_odd)
    IN  IF choice_correct
        THEN game.choosing_player
        ELSE IF game.choosing_player = game.joiner THEN game.creator ELSE game.joiner

\* line 174: the caller must be the choosing player
TossTurn(game, user_id) == user_id = game.choosing_player

handle_toss(game_id, user_id, choice) ==
    IF game_id \notin DOMAIN games
    THEN Answer("toss", "invalid")
    ELSE IF games[game_id].choosing_player = NoUser
    THEN Answer("toss", "error")
    ELSE IF ~TossTurn(games[game_id], user_id)
    THEN Answer("toss", "invalid")
    ELSE \E toss_winner \in {TossWinner(games[game_id], choice, dice1, dice2) :
                                 dice1 \in Dice, dice2 \in Dice} :
           /\ games' = [games EXCEPT ![game_id] =
                          [@ EXCEPT !.toss_winner = toss_winner, !.status = "choosing"]]
           /\ keyboard' = [keyboard EXCEPT ![game_id] = "choice"]
           /\ last' = Reply("toss", "toss_result")

\* The toss winner check left out: every caller may choose.
ChoiceTurn_m(game, user_id) == TRUE

\* line 228: the caller must be the toss winner
ChoiceTurn(game, user_id) == user_id = game.toss_winner

\* The toss winner takes both roles.
Choose_m(game, choice) ==
    [game EXCEPT !.batsman = game.toss_winner, !.bowler = game.toss_winner]

\* lines 234-243
Choose(game, choice) ==
    LET other == IF game.toss_winner = game.creator THEN game.joiner ELSE game.creator
    IN  IF choice = "bat"
        THEN [game EXCEPT !.batsman = game.toss_winner, !.bowler = other]
        ELSE [game EXCEPT !.bowler = game.toss_winner, !.batsman = other]

handle_choice(game_id, user_id, choice) ==
    IF game_id \notin DOMAIN games
    THEN Answer("choice", "error")
    ELSE IF games[game_id].toss_winner = NoUser
    THEN Answer("choice", "error")
    ELSE IF ~ChoiceTurn(games[game_id], user_id)
    THEN Answer("choice", "only_toss_winner")
    ELSE /\ games' = [games EXCEPT ![game_id] = Choose(@, choice)]
         /\ keyboard' = [keyboard EXCEPT ![game_id] = "bat"]
         /\ last' = Reply("choice", "match_starting")

(* ---------------------------------------------------------------------- *)
(* handlers.py: play                                                       *)
(* ---------------------------------------------------------------------- *)

\* The batsman check left out: every caller passes.
BatTurn_m(game, user_id) == TRUE

\* line 272: the caller must be the batsman
BatTurn(game, user_id) == user_id = game.batsman

\* line 278
SetBatsmanChoice(game, runs) == [game EXCEPT !.batsman_choice = runs]

handle_bat(game_id, user_id, runs) ==
    IF game_id \notin DOMAIN games
    THEN Answer("bat", "not_found")
    ELSE IF games[game_id].batsman = NoUser
    THEN Answer("bat", "error")
    ELSE IF ~BatTurn(games[game_id], user_id)
    THEN Answer("bat", "not_your_turn")
    ELSE /\ games' = [games EXCEPT ![game_id] = SetBatsmanChoice(@, runs)]
         /\ keyboard' = [keyboard EXCEPT ![game_id] = "bowl"]
         /\ last' = Reply("bat", "bat_ok")

\* line 311: the caller must be the bowler
BowlTurn(game, user_id) == user_id = game.bowler

\* The bowler's number is scored instead.
RunsScored_m(runs, bowl_num) == bowl_num

\* lines 335 and 339: the number that is scored and recorded for the ball
RunsScored(runs, bowl_num) == runs

\* A wicket that also scores the number.
ProcessResult_m(game, bowl_num) ==
    LET runs == game.batsman_choice
        current_innings == game.current_innings
        g == IF bowl_num = runs
             THEN [game EXCEPT !.wickets = @ + 1,
                               !.score[current_innings] = @ + runs,
                               !.this_over = Append(@, "W")]
             ELSE [game EXCEPT
                     !.score[current_innings] = @ + RunsScored(runs, bowl_num),
                     !.boundaries[current_innings] = @ + (IF runs = 4 THEN 1 ELSE 0),
                     !.sixes[current_innings] = @ + (IF runs = 6 THEN 1 ELSE 0),
                     !.dot_balls = @ + (IF runs = 0 THEN 1 ELSE 0),
                     !.this_over = Append(@, ToString(RunsScored(runs, bowl_num)))]
    IN  [g EXCEPT !.balls = @ + 1]

\* Every run ball counted as a boundary.
ProcessResult_b(game, bowl_num) ==
    LET runs == game.batsman_choice
        current_innings == game.current_innings
        g == IF bowl_num = runs
             THEN [game EXCEPT !.wickets = @ + 1,
                               !.this_over = Append(@, "W")]
             ELSE [game EXCEPT
                     !.score[current_innings] = @ + RunsScored(runs, bowl_num),
                     !.boundaries[current_innings] = @ + 1,
                     !.sixes[current_innings] = @ + (IF runs = 6 THEN 1 ELSE 0),
                     !.dot_balls = @ + (IF runs = 0 THEN 1 ELSE 0),
                     !.this_over = Append(@, ToString(RunsScored(runs, bowl_num)))]
    IN  [g EXCEPT !.balls = @ + 1]

\* lines 329-346: runs is the batsman's stored choice (line 317)
ProcessResult(game, bowl_num) ==
    LET runs == game.batsman_choice
        current_innings == game.current_innings
        g == IF bowl_num = runs
             THEN [game EXCEPT !.wickets = @ + 1,
                               !.this_over = Append(@, "W")]
             ELSE [game EXCEPT
                     !.score[current_innings] = @ + RunsScored(runs, bowl_num),
                     !.boundaries[current_innings] = @ + (IF runs = 4 THEN 1 ELSE 0),
                     !.sixes[current_innings] = @ + (IF runs = 6 THEN 1 ELSE 0),
                     !.dot_balls = @ + (IF runs = 0 THEN 1 ELSE 0),
                     !.this_over = Append(@, ToString(RunsScored(runs, bowl_num)))]
    IN  [g EXCEPT !.balls = @ + 1]

\* lines 350-353
OverCompletion(game) ==
    IF game.balls % 6 = 0 THEN [game EXCEPT !.this_over = <<>>] ELSE game

\* The ball counter is not reset.
handle_innings_change_m(game) ==
    LET g == store_first_innings(game)
    IN  [g EXCEPT !.current_innings = 2,
                  !.wickets = 0,
                  !.this_over = <<>>,
                  !.batsman = game.bowler,
                  !.bowler = game.batsman]

\* lines 405-419
handle_innings_change(game) ==
    LET g == store_first_innings(game)
    IN  [g EXCEPT !.current_innings = 2,
                  !.wickets = 0,
                  !.balls = 0,
                  !.this_over = <<>>,
                  !.batsman = game.bowler,
                  !.bowler = game.batsman]

\* line 425: the "Required Rate" of the innings text reads max_overs
InningsTextFails(game) == game.max_overs = NoNum

\* lines 443-454 and 479-491: the result shown in the final message
MatchSummary(game, current_score, is_chase_successful) ==
    LET line == <<current_score, game.wickets, game.balls>>
    IN  IF is_chase_successful
        THEN [ winner |-> game.batsman,
               margin |-> IF game.max_wickets # Inf THEN "wickets" ELSE "comfortably",
               margin_n |-> IF game.max_wickets # Inf
                            THEN game.max_wickets - game.wickets ELSE 0,
               second_innings |-> line ]
        ELSE IF current_score = game.target - 1
        THEN [ winner |-> "No one", margin |-> "Match tied", margin_n |-> 0,
               second_innings |-> line ]
        ELSE [ winner |-> game.bowler, margin |-> "runs",
               margin_n |-> game.target - current_score - 1,
               second_innings |-> line ]

\* handle_game_end raises before `del games[game_id]`: KeyError on max_wickets
\* (line 445) or mode (line 459), or the edit of the final message fails (line 473).
SummaryFails(game, is_chase_successful, delivered) ==
    \/ (is_chase_successful /\ game.max_wickets = NoNum)
    \/ game.mode = NoMode
    \/ ~delivered

\* the status text of lines 387-392 reads max_overs in innings 2
StatusFails(game) == game.current_innings = 2 /\ game.max_overs = NoNum

\* lines 366-403: the check for the end of the innings or of the match, and
\* the message that follows; game is the match after the ball was counted
InningsOrGameEnd(game_id, game, current_innings) ==
    LET current_score == game.score[current_innings]
        is_chase_successful == game.target # NoNum /\ current_score >= game.target
    IN  IF should_end_innings(game)
        THEN IF current_innings = 1
             THEN /\ games' = [games EXCEPT ![game_id] = handle_innings_change(game)]
                  /\ IF InningsTextFails(game)
                     THEN /\ last' = Reply("bowl", "error_after_innings")
                          /\ UNCHANGED keyboard
                     ELSE /\ last' = Reply("bowl", "innings_complete")
                          /\ keyboard' = [keyboard EXCEPT ![game_id] = "bat"]
             ELSE \E delivered \in BOOLEAN :
                  IF SummaryFails(game, is_chase_successful, delivered)
                  THEN /\ games' = [games EXCEPT ![game_id] = game]
                       /\ keyboard' = [keyboard EXCEPT ![game_id] = "none"]
                       /\ last' = Reply("bowl", "game_complete_error")
                  ELSE /\ games' = Remove(games, game_id)
                       /\ keyboard' = Remove(keyboard, game_id)
                       /\ last' = [ op |-> "bowl", reply |-> "match_complete",
                                    summary |-> MatchSummary(game, current_score,
                                                             is_chase_successful) ]
        ELSE /\ games' = [games EXCEPT ![game_id] = game]
             /\ IF StatusFails(game)
                THEN /\ last' = Reply("bowl", "error_after_ball")
                     /\ UNCHANGED keyboard
                ELSE /\ last' = Reply("bowl", "ball")
                     /\ keyboard' = [keyboard EXCEPT ![game_id] = "bat"]

handle_bowl(game_id, user_id, bowl_num) ==
    IF game_id \notin DOMAIN games
    THEN Answer("bowl", "not_found")
    ELSE IF games[game_id].bowler = NoUser
    THEN Answer("bowl", "error")
    ELSE IF ~BowlTurn(games[game_id], user_id)
    THEN Answer("bowl", "not_your_turn")
    ELSE IF games[game_id].batsman_choice = NoNum
    THEN Answer("bowl", "error")
    ELSE InningsOrGameEnd(game_id,
                          OverCompletion(ProcessResult(games[game_id], bowl_num)),
                          games[game_id].current_innings)

(* ---------------------------------------------------------------------- *)
(* Updates_bott.py: the single-file bot.  It has its own main() and its    *)
(* own copies of the handlers; the copies that differ from handlers.py are *)
(* modelled here.  check_admin, is_registered, should_end_innings and      *)
(* stop_games are the same code in both programs.                          *)
(* ---------------------------------------------------------------------- *)

Updates_bott_create_game(creator_id) ==
    [ creator |-> creator_id,
      status |-> "config",
      score |-> <<0, 0>>,
      wickets |-> 0,
      balls |-> 0,
      current_innings |-> 1,
      this_over |-> <<>>,
      first_innings_boundaries |-> 0,
      first_innings_sixes |-> 0,
      second_innings_boundaries |-> 0,
      second_innings_sixes |-> 0,
      dot_balls |-> 0,
      \* keys the handlers add later
      mode |-> NoMode,
      max_wickets |-> NoNum,
      max_overs |-> NoNum,
      joiner |-> NoUser,
      boundaries |-> NoNum,
      sixes |-> NoNum,
      choosing_player |-> NoUser,
      toss_winner |-> NoUser,
      batsman |-> NoUser,
      bowler |-> NoUser,
      batsman_choice |-> NoNum,
      first_innings_wickets |-> NoNum,
      first_innings_score |-> NoNum,
      first_innings_overs |-> <<NoNum, NoNum>>,
      target |-> NoNum ]

Updates_bott_store_first_innings(game) ==
    [game EXCEPT
        !.first_innings_wickets = game.wickets,
        !.first_innings_score = game.score[1],
        !.first_innings_overs = <<game.balls \div 6, game.balls % 6>>,
        !.target = game.score[1] + 1]

\* handle_error replaces the match's message by the error text and a Retry
\* button; validate_game_state fails before roles are set, and the defaults
\* written then are for keys create_game has already set.
Updates_bott_handle_error(game_id) ==
    IF game_id \in DOMAIN keyboard
    THEN [keyboard EXCEPT ![game_id] = "retry"]
    ELSE keyboard

\* An exception before anything was written.
Updates_bott_Error(op, game_id) ==
    /\ last' = Reply(op, "error")
    /\ keyboard' = Updates_bott_handle_error(game_id)
    /\ UNCHANGED games

Updates_bott_gameon(user_id, game_id) ==
    IF ~is_registered(user_id)
    THEN Answer("gameon", "register_first")
    ELSE /\ game_id \notin DOMAIN games
         /\ games' = Put(games, game_id, Updates_bott_create_game(user_id))
         /\ keyboard' = Put(keyboard, game_id, "mode")
         /\ last' = Reply("gameon", "modes")

\* lines 1656-1675
Updates_bott_SetMode(game, mode) ==
    LET g == [game EXCEPT !.mode = mode,
                          !.status = "setup",
                          !.current_innings = 1,
                          !.score = <<0, 0>>,
                          !.wickets = 0,
                          !.balls = 0,
                          !.this_over = <<>>]
    IN  IF mode = "survival"
        THEN [g EXCEPT !.max_wickets = 1, !.max_overs = Inf]
        ELSE IF mode = "quick"
        THEN [g EXCEPT !.max_wickets = Inf]
        ELSE g

Updates_bott_handle_mode(game_id, mode) ==
    IF game_id \notin DOMAIN games
    THEN Answer("mode", "not_found")
    ELSE /\ games' = [games EXCEPT ![game_id] = Updates_bott_SetMode(@, mode)]
         /\ keyboard' = [keyboard EXCEPT ![game_id] =
                            IF mode = "survival" THEN "join"
                            ELSE IF mode = "quick" THEN "overs" ELSE "wickets"]
         /\ last' = Reply("mode", "mode_set")

Updates_bott_handle_wickets(game_id, wickets) ==
    IF game_id \notin DOMAIN games
    THEN Updates_bott_Error("wickets", game_id)
    ELSE /\ games' = [games EXCEPT ![game_id] = SetWickets(@, wickets)]
         /\ keyboard' = [keyboard EXCEPT ![game_id] = "overs"]
         /\ last' = Reply("wickets", "wickets_set")

\* the "Game Ready" text of lines 1759-1767 reads mode; max_wickets is read
\* with a default
Updates_bott_ReadyFails(game) == game.mode = NoMode

Updates_bott_handle_vers(game_id, overs) ==
    IF game_id \notin DOMAIN games
    THEN Answer("overs", "not_found")
    ELSE /\ games' = [games EXCEPT ![game_id] = SetOvers(@, overs)]
         /\ IF Updates_bott_ReadyFails(games[game_id])
            THEN /\ last' = Reply("overs", "error")
                 /\ keyboard' = Updates_bott_handle_error(game_id)
            ELSE /\ last' = Reply("overs", "ready")
                 /\ keyboard' = [keyboard EXCEPT ![game_id] = "join"]

\* lines 1856-1874
Updates_bott_Join(game, user_id) ==
    [game EXCEPT !.joiner = user_id,
                 !.status = "toss",
                 !.current_innings = 1,
                 !.score = <<0, 0>>,
                 !.wickets = 0,
                 !.balls = 0,
                 !.boundaries = 0,
                 !.sixes = 0,
                 !.this_over = <<>>,
                 !.choosing_player = user_id]

Updates_bott_handle_join(game_id, user_id) ==
    IF game_id \notin DOMAIN games
    THEN Answer("join", "not_found")
    ELSE IF ~JoinAllowed(games[game_id], user_id)
    THEN Answer("join", IF user_id = games[game_id].creator
                        THEN "own_game" ELSE "two_players")
    ELSE /\ games' = [games EXCEPT ![game_id] = Updates_bott_Join(@, user_id)]
         /\ keyboard' = [keyboard EXCEPT ![game_id] = "toss"]
         /\ last' = Reply("join", "joined")

\* lines 3440-3449
Updates_bott_TossWinner(game, choice, dice1, dice2) ==
    LET total == dice1 + dice2
        is_odd == total % 2 = 1
        choice_correct == (choice = "odd" /\ is_odd) \/ (choice = "even" /\ ~is_odd)
    IN  IF choice_correct
        THEN game.choosing_player
        ELSE IF game.choosing_player = game.joiner THEN game.creator ELSE game.creator

\* Both rejections (lines 3402-3416) call query.answer with parse_mode, an
\* argument it does not take: the TypeError is handled by handle_error.
Updates_bott_handle_toss(game_id, user_id, choice) ==
    IF game_id \notin DOMAIN games
    THEN Updates_bott_Error("toss", game_id)
    ELSE IF games[game_id].choosing_player = NoUser
    THEN Updates_bott_Error("toss", game_id)
    ELSE IF ~TossTurn(games[game_id], user_id)
    THEN Updates_bott_Error("toss", game_id)
    ELSE \E toss_winner \in {Updates_bott_TossWinner(games[game_id], choice, dice1, dice2) :
                                 dice1 \in Dice, dice2 \in Dice} :
           /\ games' = [games EXCEPT ![game_id] =
                          [@ EXCEPT !.toss_winner = toss_winner, !.status = "choosing"]]
           /\ keyboard' = [keyboard EXCEPT ![game_id] = "choice"]
           /\ last' = Reply("toss", "toss_result")

Updates_bott_handle_choice(game_id, user_id, choice) ==
    IF game_id \notin DOMAIN games
    THEN Updates_bott_Error("choice", game_id)
    ELSE IF games[game_id].toss_winner = NoUser
    THEN Updates_bott_Error("choice", game_id)
    ELSE IF ~ChoiceTurn(games[game_id], user_id)
    THEN Answer("choice", "only_toss_winner")
    ELSE /\ games' = [games EXCEPT ![game_id] = Choose(@, choice)]
         /\ keyboard' = [keyboard EXCEPT ![game_id] = "bat"]
         /\ last' = Reply("choice", "match_starting")

\* get_target_info (lines 3740-3754), called by handle_bat in innings 2,
\* reads max_overs
Updates_bott_TargetInfoFails(game) ==
    game.current_innings = 2 /\ game.target # NoNum /\ game.max_overs = NoNum

Updates_bott_handle_bat(game_id, user_id, runs) ==
    IF game_id \notin DOMAIN games
    THEN Answer("bat", "not_found")
    ELSE IF games[game_id].batsman = NoUser
    THEN Updates_bott_Error("bat", game_id)
    ELSE IF ~BatTurn(games[game_id], user_id)
    THEN Answer("bat", "not_your_turn")
    ELSE /\ games' = [games EXCEPT ![game_id] = SetBatsmanChoice(@, runs)]
         /\ IF Updates_bott_TargetInfoFails(games[game_id])
            THEN /\ last' = Reply("bat", "error")
                 /\ keyboard' = Updates_bott_handle_error(game_id)
            ELSE /\ last' = Reply("bat", "bat_ok")
                 /\ keyboard' = [keyboard EXCEPT ![game_id] = "bowl"]

\* lines 2045-2072: runs is the batsman's stored choice (line 2019)
Updates_bott_ProcessResult(game, bowl_num) ==
    LET runs == game.batsman_choice
        first == game.current_innings = 1
        out == [game EXCEPT !.wickets = @ + 1, !.this_over = Append(@, "W")]
        g == IF bowl_num = runs
             THEN IF should_end_innings(out)
                  THEN [out EXCEPT !.this_over = <<>>]
                  ELSE out
             ELSE [game EXCEPT
                     !.score[game.current_innings] = @ + RunsScored(runs, bowl_num),
                     !.this_over = Append(@, ToString(RunsScored(runs, bowl_num))),
                     !.first_innings_boundaries =
                         @ + (IF runs = 4 /\ first THEN 1 ELSE 0),
                     !.second_innings_boundaries =
                         @ + (IF runs = 4 /\ ~first THEN 1 ELSE 0),
                     !.first_innings_sixes =
                         @ + (IF runs = 6 /\ first THEN 1 ELSE 0),
                     !.second_innings_sixes =
                         @ + (IF runs = 6 /\ ~first THEN 1 ELSE 0)]
    IN  [g EXCEPT !.balls = @ + 1]

\* lines 2133-2146
Updates_bott_handle_innings_change(game) ==
    LET g == Updates_bott_store_first_innings(game)
    IN  [g EXCEPT !.current_innings = 2,
                  !.wickets = 0,
                  !.balls = 0,
                  !.this_over = <<>>,
                  !.batsman = game.bowler,
                  !.bowler = game.batsman]

\* lines 2188-2194: the result line of the final message
Updates_bott_MatchSummary(game, current_score, is_chase_successful) ==
    LET line == <<current_score, game.wickets, game.balls>>
    IN  IF is_chase_successful
        THEN [ winner |-> game.batsman, margin |-> "wickets",
               margin_n |-> IF game.max_wickets = Inf
                            THEN Inf ELSE game.max_wickets - game.wickets,
               second_innings |-> line ]
        ELSE [ winner |-> game.bowler, margin |-> "runs",
               margin_n |-> game.target - current_score - 1,
               second_innings |-> line ]

\* handle_game_end raises before `result` is bound (lines 2181-2194); its
\* except clause then reads `result` and raises in turn, and handle_bowl
\* hands the exception to handle_error.
Updates_bott_ResultUnbound(game, is_chase_successful) ==
    \/ game.first_innings_score = NoNum
    \/ (is_chase_successful /\ game.max_wickets = NoNum)
    \/ (~is_chase_successful /\ game.target = NoNum)

\* handle_game_end raises after `result` is bound: KeyError on mode (line
\* 2200) or the edit of the final message fails (line 2226).
Updates_bott_SummaryFails(game, delivered) ==
    game.mode = NoMode \/ ~delivered

\* lines 2093-2130: the check for the end of the innings or of the match, and
\* the message that follows; game is the match after the ball was counted.
\* Lines 2266-2268 delete games[str(game['chat_id'])].  The keys of games are
\* the ids create_game draws, "1000".."9999"; gameon refuses private chats,
\* and the id of a group chat is negative: the key is never present, and the
\* finished match stays in games.
Updates_bott_InningsOrGameEnd(game_id, game) ==
    LET current_score == game.score[game.current_innings]
        is_chase_successful == game.target # NoNum /\ current_score >= game.target
    IN  IF should_end_innings(game)
        THEN IF game.current_innings = 1
             THEN /\ games' = [games EXCEPT ![game_id] =
                                 Updates_bott_handle_innings_change(game)]
                  /\ keyboard' = [keyboard EXCEPT ![game_id] = "bat"]
                  /\ last' = Reply("bowl", "innings_complete")
             ELSE /\ games' = [games EXCEPT ![game_id] = game]
                  /\ IF Updates_bott_ResultUnbound(game, is_chase_successful)
                     THEN /\ keyboard' = Updates_bott_handle_error(game_id)
                          /\ last' = Reply("bowl", "game_complete_error")
                     ELSE \E delivered \in BOOLEAN :
                          /\ keyboard' = [keyboard EXCEPT ![game_id] = "none"]
                          /\ IF Updates_bott_SummaryFails(game, delivered)
                             THEN last' = Reply("bowl", "game_complete_error")
                             ELSE last' = [ op |-> "bowl", reply |-> "match_complete",
                                            summary |-> Updates_bott_MatchSummary(
                                                game, current_score, is_chase_successful) ]
        ELSE /\ games' = [games EXCEPT ![game_id] = game]
             /\ IF StatusFails(game)
                THEN /\ last' = Reply("bowl", "error_after_ball")
                     /\ keyboard' = Updates_bott_handle_error(game_id)
                ELSE /\ last' = Reply("bowl", "ball")
                     /\ keyboard' = [keyboard EXCEPT ![game_id] = "bat"]

\* lines 2022-2030: the commentary of a run ball is COMMENTARY_PHRASES
\* ['run_<runs>'], and the dictionary (lines 345-460) has run_1 .. run_6
Updates_bott_CommentaryFails(runs, bowl_num) ==
    bowl_num # runs /\ runs \notin 1..6

Updates_bott_handle_bowl(game_id, user_id, bowl_num) ==
    IF game_id \notin DOMAIN games
    THEN Answer("bowl", "not_found")
    ELSE IF games[game_id].bowler = NoUser
    THEN Updates_bott_Error("bowl", game_id)
    ELSE IF ~BowlTurn(games[game_id], user_id)
    THEN Answer("bowl", "not_your_turn")
    ELSE IF games[game_id].batsman_choice = NoNum
    THEN Updates_bott_Error("bowl", game_id)
    ELSE IF Updates_bott_CommentaryFails(games[game_id].batsman_choice, bowl_num)
    THEN Updates_bott_Error("bowl", game_id)
    ELSE Updates_bott_InningsOrGameEnd(
             game_id,
             OverCompletion(Updates_bott_ProcessResult(games[game_id], bowl_num)))

\* lines 3356-3363
validate_game_state(game) ==
    /\ game.mode # NoMode
    /\ game.max_wickets # NoNum
    /\ game.max_overs # NoNum
    /\ game.batsman # NoUser
    /\ game.bowler # NoUser

\* The Retry button of handle_error.  No handler sets status to 'batting' or
\* 'bowling', so a match whose state validates is answered "cannot recover":
\* either way the message loses its keyboard and the match is left as it is.
handle_retry(game_id) ==
    IF game_id \notin DOMAIN games
    THEN Answer("retry", "not_found")
    ELSE /\ keyboard' = [keyboard EXCEPT ![game_id] = "none"]
         /\ last' = Reply("retry", IF validate_game_state(games[game_id])
                                   THEN "cannot_recover" ELSE "corrupted")
         /\ UNCHANGED games

(* ---------------------------------------------------------------------- *)
(* The bot and the updates that reach it                                   *)
(* ---------------------------------------------------------------------- *)

\* The callback does not come from the keyboard the match shows.
Stale(game_id, kind) ==
    game_id \in DOMAIN games /\ keyboard[game_id] # kind

Counted(game_id, kind) ==
    IF Stale(game_id, kind)
    THEN /\ stale < MaxStale
         /\ games[game_id].balls < ShortBalls
         /\ stale' = stale + 1
    ELSE stale' = stale

\* A callback whose handler runs to its end in one step.
Arrives(game_id, kind) ==
    /\ UNCHANGED <<build, running>>
    /\ Counted(game_id, kind)

\* The model follows an innings for at most MaxBalls balls.
InBounds(game_id) ==
    game_id \in DOMAIN games =>
        games[game_id].balls < (IF stale = 0 THEN MaxBalls ELSE ShortBalls)

\* The program that was started: main.py, or Updates_bott.py.
Main == build = "main"

\* No handler is suspended.  A suspended handler holds the update it was
\* called with (query.data, query.from_user) and its local variable `game`;
\* seen is the match as line 309 found it.
Idle ==
    [ op |-> "none", pc |-> "none", game_id |-> "none", user_id |-> NoUser,
      choice |-> "none", bowl_num |-> NoNum, seen |-> create_game(NoUser) ]

Init ==
    /\ build \in Builds
    /\ games = [g \in {} |-> create_game(NoUser)]
    /\ keyboard = [g \in {} |-> "none"]
    /\ last = Reply("none", "none")
    /\ stale = 0
    /\ running = Idle

\* main.py lines 47-72 (Updates_bott.py lines 3982-4017): the dispatcher calls
\* the handler registered for the command or for the prefix of the callback.
OnGameon(u, g) ==
    /\ IF Main THEN gameon(u, g) ELSE Updates_bott_gameon(u, g)
    /\ stale' = (IF is_registered(u) THEN 0 ELSE stale)
    /\ UNCHANGED <<build, running>>

OnStopGames(u) == stop_games(u) /\ UNCHANGED <<stale, build, running>>

OnMode(g, m) ==
    /\ IF Main THEN handle_mode(g, m) ELSE Updates_bott_handle_mode(g, m)
    /\ Arrives(g, "mode")

OnWickets(g, n) ==
    /\ IF Main THEN handle_wickets(g, n) ELSE Updates_bott_handle_wickets(g, n)
    /\ Arrives(g, "wickets")

OnOvers(g, n) ==
    /\ IF Main THEN handle_vers(g, n) ELSE Updates_bott_handle_vers(g, n)
    /\ Arrives(g, "overs")

OnJoin(g, u) ==
    /\ IF Main THEN handle_join(g, u) ELSE Updates_bott_handle_join(g, u)
    /\ Arrives(g, "join")

OnToss(g, u, c) ==
    /\ IF Main THEN handle_toss(g, u, c) ELSE Updates_bott_handle_toss(g, u, c)
    /\ Arrives(g, "toss")

OnChoice(g, u, c) ==
    /\ IF Main THEN handle_choice(g, u, c) ELSE Updates_bott_handle_choice(g, u, c)
    /\ Arrives(g, "choice")

OnBat(g, u, n) ==
    /\ IF Main THEN handle_bat(g, u, n) ELSE Updates_bott_handle_bat(g, u, n)
    /\ Arrives(g, "bat")

OnBowl(g, u, n) ==
    /\ InBounds(g)
    /\ IF Main THEN handle_bowl(g, u, n) ELSE Updates_bott_handle_bowl(g, u, n)
    /\ Arrives(g, "bowl")

OnRetry(g) ==
    /\ ~Main
    /\ handle_retry(g)
    /\ Arrives(g, "retry")

Next ==
    \/ \E u \in Users, g \in GameIds : OnGameon(u, g)
    \/ \E u \in Users : OnStopGames(u)
    \/ \E g \in GameIds, m \in Modes : OnMode(g, m)
    \/ \E g \in GameIds, n \in WicketNums : OnWickets(g, n)
    \/ \E g \in GameIds, n \in OverNums : OnOvers(g, n)
    \/ \E g \in GameIds, u \in Users : OnJoin(g, u)
    \/ \E g \in GameIds, u \in Users, c \in {"odd", "even"} : OnToss(g, u, c)
    \/ \E g \in GameIds, u \in Users, c \in {"bat", "bowl"} : OnChoice(g, u, c)
    \/ \E g \in GameIds, u \in Users, n \in BatNums : OnBat(g, u, n)
    \/ \E g \in GameIds, u \in Users, n \in BowlNums : OnBowl(g, u, n)
    \/ \E g \in GameIds : OnRetry(g)

Spec == Init /\ [][Next]_vars

\* A third Telegram user, who is in the chat and presses the buttons of a
\* match that two others play.
Bystanders == {"u3"}
AnyUser == Users \cup Bystanders

\* The matches followed with a bystander present are short ones.
ShortMatch(g) == g \in DOMAIN games => games[g].balls < ShortBalls

NextWithBystander ==
    \/ \E u \in AnyUser, g \in GameIds : OnGameon(u, g)
    \/ \E u \in AnyUser : OnStopGames(u)
    \/ \E g \in GameIds, m \in Modes : OnMode(g, m)
    \/ \E g \in GameIds, n \in WicketNums : OnWickets(g, n)
    \/ \E g \in GameIds, n \in OverNums : OnOvers(g, n)
    \/ \E g \in GameIds, u \in AnyUser : OnJoin(g, u)
    \/ \E g \in GameIds, u \in AnyUser, c \in {"odd", "even"} : OnToss(g, u, c)
    \/ \E g \in GameIds, u \in AnyUser, c \in {"bat", "bowl"} : OnChoice(g, u, c)
    \/ \E g \in GameIds, u \in AnyUser, n \in BatNums : OnBat(g, u, n)
    \/ \E g \in GameIds, u \in AnyUser, n \in BowlNums :
          ShortMatch(g) /\ OnBowl(g, u, n)
    \/ \E g \in GameIds : OnRetry(g)

SpecWithBystander == Init /\ [][NextWithBystander]_vars

\* Two matches at a time: the ids create_game can draw are two, every
\* callback comes from the keyboard its match shows, two modes, one wicket
\* number and two bowler numbers are pressed.
TwoGameIds == {"g1", "g2"}

TwoModes == {"classic", "survival"}

TwoWicketNums == {1}

TwoBowlNums == {4, 5}

FromKeyboard(g, kind) == ~Stale(g, kind)

NextTwoMatches ==
    \/ \E u \in Users, g \in TwoGameIds : OnGameon(u, g)
    \/ \E u \in Users : OnStopGames(u)
    \/ \E g \in TwoGameIds, m \in TwoModes : FromKeyboard(g, "mode") /\ OnMode(g, m)
    \/ \E g \in TwoGameIds, n \in TwoWicketNums :
          FromKeyboard(g, "wickets") /\ OnWickets(g, n)
    \/ \E g \in TwoGameIds, n \in OverNums :
          FromKeyboard(g, "overs") /\ OnOvers(g, n)
    \/ \E g \in TwoGameIds, u \in Users : FromKeyboard(g, "join") /\ OnJoin(g, u)
    \/ \E g \in TwoGameIds, u \in Users, c \in {"odd", "even"} :
          FromKeyboard(g, "toss") /\ OnToss(g, u, c)
    \/ \E g \in TwoGameIds, u \in Users, c \in {"bat", "bowl"} :
          FromKeyboard(g, "choice") /\ OnChoice(g, u, c)
    \/ \E g \in TwoGameIds, u \in Users, n \in BatNums :
          FromKeyboard(g, "bat") /\ OnBat(g, u, n)
    \/ \E g \in TwoGameIds, u \in Users, n \in TwoBowlNums :
          FromKeyboard(g, "bowl") /\ ShortMatch(g) /\ OnBowl(g, u, n)
    \/ \E g \in TwoGameIds : FromKeyboard(g, "retry") /\ OnRetry(g)

SpecTwoMatches == Init /\ [][NextTwoMatches]_vars

\* A long innings: one match, followed for LateBalls balls, every callback
\* from the keyboard the match shows except an overs_ callback, which can
\* arrive late, from the overs keyboard shown before.
LateBalls == 7

\* two buttons of the overs keyboard (keys.py lines 53-54)
LongOverNums == {1, 5}

LongInnings(g) == g \in DOMAIN games => games[g].balls < LateBalls

\* handle_bowl for a ball of a long innings
LongBowl(g, u, n) ==
    /\ LongInnings(g)
    /\ FromKeyboard(g, "bowl")
    /\ IF Main THEN handle_bowl(g, u, n) ELSE Updates_bott_handle_bowl(g, u, n)
    /\ UNCHANGED <<stale, build, running>>

\* handle_vers for an overs_ callback that arrives while another keyboard is
\* shown
LateOvers(g, n) ==
    /\ Stale(g, "overs")
    /\ stale < MaxStale
    /\ IF Main THEN handle_vers(g, n) ELSE Updates_bott_handle_vers(g, n)
    /\ stale' = stale + 1
    /\ UNCHANGED <<build, running>>

NextLongInnings ==
    \/ \E u \in Users, g \in GameIds : OnGameon(u, g)
    \/ \E u \in Users : OnStopGames(u)
    \/ \E g \in GameIds, m \in Modes : FromKeyboard(g, "mode") /\ OnMode(g, m)
    \/ \E g \in GameIds, n \in TwoWicketNums :
          FromKeyboard(g, "wickets") /\ OnWickets(g, n)
    \/ \E g \in GameIds, n \in LongOverNums :
          FromKeyboard(g, "overs") /\ OnOvers(g, n)
    \/ \E g \in GameIds, n \in LongOverNums : LateOvers(g, n)
    \/ \E g \in GameIds, u \in Users : FromKeyboard(g, "join") /\ OnJoin(g, u)
    \/ \E g \in GameIds, u \in Users, c \in {"odd", "even"} :
          FromKeyboard(g, "toss") /\ OnToss(g, u, c)
    \/ \E g \in GameIds, u \in Users, c \in {"bat", "bowl"} :
          FromKeyboard(g, "choice") /\ OnChoice(g, u, c)
    \/ \E g \in GameIds, u \in Users, n \in BatNums :
          FromKeyboard(g, "bat") /\ OnBat(g, u, n)
    \/ \E g \in GameIds, u \in Users, n \in TwoBowlNums : LongBowl(g, u, n)
    \/ \E g \in GameIds : FromKeyboard(g, "retry") /\ OnRetry(g)

SpecLongInnings == Init /\ [][NextLongInnings]_vars

\* One match whose callbacks all come from the keyboard it shows, with
\* players who go on playing: whenever the batting keyboard is shown the
\* batsman presses a number, whenever the bowling keyboard is shown the
\* bowler does.
NextInTurn ==
    \/ \E u \in Users, g \in GameIds : OnGameon(u, g)
    \/ \E u \in Users : OnStopGames(u)
    \/ \E g \in GameIds, m \in Modes : FromKeyboard(g, "mode") /\ OnMode(g, m)
    \/ \E g \in GameIds, n \in TwoWicketNums :
          FromKeyboard(g, "wickets") /\ OnWickets(g, n)
    \/ \E g \in GameIds, n \in OverNums : FromKeyboard(g, "overs") /\ OnOvers(g, n)
    \/ \E g \in GameIds, u \in Users : FromKeyboard(g, "join") /\ OnJoin(g, u)
    \/ \E g \in GameIds, u \in Users, c \in {"odd", "even"} :
          FromKeyboard(g, "toss") /\ OnToss(g, u, c)
    \/ \E g \in GameIds, u \in Users, c \in {"bat", "bowl"} :
          FromKeyboard(g, "choice") /\ OnChoice(g, u, c)
    \/ \E g \in GameIds, u \in Users, n \in BatNums :
          FromKeyboard(g, "bat") /\ OnBat(g, u, n)
    \/ \E g \in GameIds, u \in Users, n \in TwoBowlNums :
          FromKeyboard(g, "bowl") /\ OnBowl(g, u, n)
    \/ \E g \in GameIds : FromKeyboard(g, "retry") /\ OnRetry(g)

BatsmanSubmits ==
    \E g \in DOMAIN games, n \in BatNums :
        FromKeyboard(g, "bat") /\ OnBat(g, games[g].batsman, n)

BowlerSubmits ==
    \E g \in DOMAIN games, n \in TwoBowlNums :
        FromKeyboard(g, "bowl") /\ OnBowl(g, games[g].bowler, n)

SpecInTurn ==
    Init /\ [][NextInTurn]_vars /\ WF_vars(BatsmanSubmits) /\ WF_vars(BowlerSubmits)

\* Numbers a bat_ or bowl_ callback can carry: the keyboards of keys.py offer
\* 1..6, and int() (handlers.py lines 263 and 303) takes any number.
AnyBatNums == {4, 6, 7}
AnyBowlNums == {4, 7}

NextAnyNumber ==
    \/ \E u \in Users, g \in GameIds : OnGameon(u, g)
    \/ \E u \in Users : OnStopGames(u)
    \/ \E g \in GameIds, m \in Modes : OnMode(g, m)
    \/ \E g \in GameIds, n \in WicketNums : OnWickets(g, n)
    \/ \E g \in GameIds, n \in OverNums : OnOvers(g, n)
    \/ \E g \in GameIds, u \in Users : OnJoin(g, u)
    \/ \E g \in GameIds, u \in Users, c \in {"odd", "even"} : OnToss(g, u, c)
    \/ \E g \in GameIds, u \in Users, c \in {"bat", "bowl"} : OnChoice(g, u, c)
    \/ \E g \in GameIds, u \in Users, n \in AnyBatNums : OnBat(g, u, n)
    \/ \E g \in GameIds, u \in Users, n \in AnyBowlNums :
          ShortMatch(g) /\ OnBowl(g, u, n)
    \/ \E g \in GameIds : OnRetry(g)

SpecAnyNumber == Init /\ [][NextAnyNumber]_vars

(* ---------------------------------------------------------------------- *)
(* The handlers step by step: handle_toss and handle_bowl give up control  *)
(* at every `await asyncio.sleep` (handlers.py lines 182, 323, 327, 363;   *)
(* Updates_bott.py lines 3426-3439, 2035, 2040, 2087).                     *)
(* ---------------------------------------------------------------------- *)

\* Updates handed to their handlers while a handler is suspended.
concurrent_updates_m == TRUE

\* main.py lines 36-44 build the Application without concurrent_updates(True)
\* and lines 47-76 register every handler with the default block=True: the
\* Application awaits the handler of an update before it takes the next one.
concurrent_updates == FALSE

\* The next update may be handed to its handler.
CanDispatch == concurrent_updates \/ running.op = "none"

Suspend(op, pc, game_id, user_id, choice, bowl_num) ==
    [ op |-> op, pc |-> pc, game_id |-> game_id, user_id |-> user_id,
      choice |-> choice, bowl_num |-> bowl_num, seen |-> games[game_id] ]

\* handle_toss passes its checks (line 174)
TossAccepted(g, u) ==
    /\ g \in DOMAIN games
    /\ games[g].choosing_player # NoUser
    /\ TossTurn(games[g], u)

\* handle_toss up to the sleep of line 182: nothing is written yet
TossStart(g, u, c) ==
    /\ CanDispatch
    /\ IF TossAccepted(g, u)
       THEN /\ running.op = "none"
            /\ running' = Suspend("toss", "rolling", g, u, c, NoNum)
            /\ last' = Reply("toss", "rolling")
            /\ Counted(g, "toss")
            /\ UNCHANGED <<build, games, keyboard>>
       ELSE OnToss(g, u, c)

\* handle_toss from line 184 on: the dice, the winner, the choice keyboard
TossFinish ==
    /\ running.op = "toss"
    /\ IF Main
       THEN handle_toss(running.game_id, running.user_id, running.choice)
       ELSE Updates_bott_handle_toss(running.game_id, running.user_id, running.choice)
    /\ running' = Idle
    /\ UNCHANGED <<build, stale>>

\* handle_bowl passes its checks (lines 305-317) and reaches the animation
BowlAccepted(g, u, n) ==
    /\ g \in DOMAIN games
    /\ games[g].bowler # NoUser
    /\ BowlTurn(games[g], u)
    /\ games[g].batsman_choice # NoNum
    /\ Main \/ ~Updates_bott_CommentaryFails(games[g].batsman_choice, n)

\* handle_bowl up to the sleeps of lines 323 and 327: runs and
\* current_innings are read (lines 317-318), nothing is written yet
BowlStart(g, u, n) ==
    /\ CanDispatch
    /\ IF BowlAccepted(g, u, n)
       THEN /\ running.op = "none"
            /\ InBounds(g)
            /\ running' = Suspend("bowl", "animation", g, u, "none", n)
            /\ last' = Reply("bowl", "bowling")
            /\ Counted(g, "bowl")
            /\ UNCHANGED <<build, games, keyboard>>
       ELSE OnBowl(g, u, n)

\* lines 329-353 applied to the match as it is now, with the runs read at
\* line 317
Counts(game, runs, bowl_num) ==
    LET read == [game EXCEPT !.batsman_choice = runs]
        done == OverCompletion(IF Main THEN ProcessResult(read, bowl_num)
                               ELSE Updates_bott_ProcessResult(read, bowl_num))
    IN  [done EXCEPT !.batsman_choice = game.batsman_choice]

\* lines 366-403 for the suspended handler
Ends(game) ==
    IF Main
    THEN InningsOrGameEnd(running.game_id, game, running.seen.current_innings)
    ELSE Updates_bott_InningsOrGameEnd(running.game_id, game)

\* A handler whose match was removed from games while it slept goes on with
\* the dictionary it holds: games is not written.
Orphaned ==
    /\ running.game_id \notin DOMAIN games
    /\ last' = Reply(running.op, "orphaned")
    /\ running' = Idle
    /\ UNCHANGED <<games, keyboard>>

\* handle_bowl from line 329 on: the ball is counted; after the sixth ball of
\* an over the handler sleeps again (line 363) before the end check
BowlProcess ==
    /\ running.op = "bowl"
    /\ running.pc = "animation"
    /\ \/ Orphaned
       \/ /\ running.game_id \in DOMAIN games
          /\ LET game == Counts(games[running.game_id],
                                running.seen.batsman_choice, running.bowl_num)
             IN  IF game.balls % 6 = 0
                 THEN /\ games' = [games EXCEPT ![running.game_id] = game]
                      /\ running' = [running EXCEPT !.pc = "over_break"]
                      /\ last' = Reply("bowl", "over_complete")
                      /\ UNCHANGED keyboard
                 ELSE Ends(game) /\ running' = Idle
    /\ UNCHANGED <<build, stale>>

\* handle_bowl from line 366 on, after the over break
BowlFinish ==
    /\ running.op = "bowl"
    /\ running.pc = "over_break"
    /\ \/ Orphaned
       \/ /\ running.game_id \in DOMAIN games
          /\ Ends(games[running.game_id])
          /\ running' = Idle
    /\ UNCHANGED <<build, stale>>

NextStepwise ==
    \/ \E u \in Users, g \in GameIds : CanDispatch /\ OnGameon(u, g)
    \/ \E u \in Users : CanDispatch /\ OnStopGames(u)
    \/ \E g \in GameIds, m \in Modes : CanDispatch /\ OnMode(g, m)
    \/ \E g \in GameIds, n \in WicketNums : CanDispatch /\ OnWickets(g, n)
    \/ \E g \in GameIds, n \in OverNums : CanDispatch /\ OnOvers(g, n)
    \/ \E g \in GameIds, u \in Users : CanDispatch /\ OnJoin(g, u)
    \/ \E g \in GameIds, u \in Users, c \in {"odd", "even"} : TossStart(g, u, c)
    \/ TossFinish
    \/ \E g \in GameIds, u \in Users, c \in {"bat", "bowl"} :
          CanDispatch /\ OnChoice(g, u, c)
    \/ \E g \in GameIds, u \in Users, n \in BatNums : CanDispatch /\ OnBat(g, u, n)
    \/ \E g \in GameIds, u \in Users, n \in BowlNums : BowlStart(g, u, n)
    \/ BowlProcess
    \/ BowlFinish
    \/ \E g \in GameIds : CanDispatch /\ OnRetry(g)

SpecStepwise == Init /\ [][NextStepwise]_vars

(* ---------------------------------------------------------------------- *)
(* Properties                                                              *)
(* ---------------------------------------------------------------------- *)

\* The replies of handle_bowl after which a ball has been resolved, split by
\* what became of the innings.
SameInnings == {"ball", "error_after_ball"}
InningsChanged == {"innings_complete", "error_after_innings"}
Completed == {"match_complete", "game_complete_error"}
Resolved == SameInnings \cup InningsChanged \cup Completed

\* A match whose roles are assigned: handle_bat and handle_bowl act on it.
Playing(game) == game.batsman # NoUser /\ game.bowler # NoUser

\* C1: a bat_ callback sent by a user who is not the batsman of the match,
\* and a bowl_ callback sent by a user who is not its bowler, is answered
\* "not your turn"; it changes no field of any match, leaves the dictionary
\* as it is and does not edit the match's message.
C1_TurnRejected ==
    [][\A g \in GameIds, u \in Users :
          (g \in DOMAIN games /\ Playing(games[g])) =>
              /\ \A n \in BatNums :
                    (u # games[g].batsman /\ OnBat(g, u, n)) =>
                        /\ games' = games
                        /\ keyboard' = keyboard
                        /\ last' = Reply("bat", "not_your_turn")
              /\ \A n \in BowlNums :
                    (u # games[g].bowler /\ OnBowl(g, u, n)) =>
                        /\ games' = games
                        /\ keyboard' = keyboard
                        /\ last' = Reply("bowl", "not_your_turn")
      ]_vars

\* The bowler pressed a batting button before the batsman chose anything: the
\* press was refused and the pending choice is still absent.
C1_Witness ==
    \E g \in DOMAIN games :
        /\ Playing(games[g])
        /\ last = Reply("bat", "not_your_turn")
        /\ games[g].batsman_choice = NoNum
        /\ games[g].balls = 0

\* The bowler of match g sends bowl number w while a batsman's number is stored.
BallBowled(g, u, w) ==
    /\ g \in DOMAIN games
    /\ Playing(games[g])
    /\ u = games[g].bowler
    /\ games[g].batsman_choice # NoNum
    /\ OnBowl(g, u, w)

\* The runs of innings i of match g after the step: read from the match, or,
\* when the step removed the match, from the score line of the final message.
RunsAfter(g, i) ==
    IF g \in DOMAIN games' THEN games'[g].score[i] ELSE last'.summary.second_innings[1]

\* The wickets of the innings the ball was bowled in, after the step: the
\* innings change stores them as first_innings_wickets and resets wickets.
WicketsAfter(g) ==
    IF g \notin DOMAIN games' THEN last'.summary.second_innings[2]
    ELSE IF games'[g].current_innings # games[g].current_innings
    THEN games'[g].first_innings_wickets
    ELSE games'[g].wickets

\* x is appended to the over sequence; the sequence is emptied when the ball
\* completes an over or ends the innings.
Recorded(g, x) ==
    g \in DOMAIN games' =>
        LET appended == Append(games[g].this_over, x)
        IN  IF \/ (games[g].balls + 1) % 6 = 0
               \/ games'[g].current_innings # games[g].current_innings
            THEN games'[g].this_over = <<>>
            ELSE IF last'.reply \in Completed
            THEN games'[g].this_over \in {appended, <<>>}
            ELSE games'[g].this_over = appended

Counters(game) ==
    IF Main
    THEN <<game.score, game.boundaries, game.sixes>>
    ELSE <<game.score, game.first_innings_boundaries, game.first_innings_sixes,
           game.second_innings_boundaries, game.second_innings_sixes>>

CountersKept(g) ==
    IF g \in DOMAIN games'
    THEN Counters(games'[g]) = Counters(games[g])
    ELSE last'.summary.second_innings[1] = games[g].score[2]

\* C3: a ball with w = b adds exactly one wicket to the innings it was bowled
\* in, records "W" in the over sequence, and changes no run, boundary or six
\* counter of either innings.
C3_WicketOnMatch ==
    [][\A g \in GameIds, u \in Users, w \in BowlNums :
          (BallBowled(g, u, w) /\ w = games[g].batsman_choice) =>
              /\ WicketsAfter(g) = games[g].wickets + 1
              /\ Recorded(g, "W")
              /\ CountersKept(g)
      ]_vars

\* A wicket fell on the second ball, after a run ball: one wicket, the runs
\* of the first ball untouched.
C3_Witness ==
    \E g \in DOMAIN games :
        /\ last = Reply("bowl", "ball")
        /\ games[g].wickets = 1
        /\ games[g].balls = 2
        /\ games[g].score[1] = 4
        /\ games[g].this_over = <<"4", "W">>

\* C4: right after a resolved ball no batsman's number is stored in the match
\* (stated for a match whose callbacks all came from the keyboard it showed).
C4_ChoiceConsumed ==
    \A g \in DOMAIN games :
        (stale = 0 /\ last.op = "bowl" /\ last.reply \in Resolved) =>
            games[g].batsman_choice = NoNum

\* No batsman's number is pending: none was ever stored, or a ball has just
\* been resolved.
NoPending(g) ==
    \/ games[g].batsman_choice = NoNum
    \/ (last.op = "bowl" /\ last.reply \in Resolved)

\* C5: a bowl_ callback of the bowler while no batsman's number is pending
\* changes no field of the match: no ball, run or wicket is counted.
C5_BowlNeedsPending ==
    [][\A g \in GameIds, u \in Users, w \in BowlNums :
          (/\ g \in DOMAIN games
           /\ Playing(games[g])
           /\ u = games[g].bowler
           /\ NoPending(g)
           /\ OnBowl(g, u, w)) => games' = games
      ]_vars

\* A limit that is set and is not float('inf').
Finite(v) == v # NoNum /\ v # Inf

\* C6: after a resolved ball the innings is over exactly when the wicket
\* limit is reached, or the over limit is reached, or innings 2 has reached
\* the target; then innings 1 gives way to innings 2 and innings 2 to the end
\* of the match; otherwise the match stays in its innings with the same
\* batsman to choose next.
C6_InningsEndsExactlyWhenDue ==
    [][\A g \in GameIds, u \in Users, w \in BowlNums :
          BallBowled(g, u, w) =>
              LET game == games[g]
                  b == game.batsman_choice
                  i == game.current_innings
                  wickets == game.wickets + (IF w = b THEN 1 ELSE 0)
                  balls == game.balls + 1
                  runs == game.score[i] + (IF w = b THEN 0 ELSE b)
                  ends == \/ (Finite(game.max_wickets) /\ wickets >= game.max_wickets)
                          \/ (Finite(game.max_overs) /\ balls >= game.max_overs * 6)
                          \/ (i = 2 /\ game.target # NoNum /\ runs >= game.target)
              IN  IF ends /\ i = 1
                  THEN /\ last'.reply \in InningsChanged
                       /\ g \in DOMAIN games'
                       /\ games'[g].current_innings = 2
                  ELSE IF ends
                  THEN last'.reply \in Completed
                  ELSE /\ last'.reply \in SameInnings
                       /\ g \in DOMAIN games'
                       /\ games'[g].current_innings = i
                       /\ games'[g].batsman = game.batsman
                       /\ games'[g].balls = balls
      ]_vars

\* The sixth ball of a one-over innings was bowled: innings 2 has begun.
C6_Witness ==
    \E g \in DOMAIN games :
        /\ last = Reply("bowl", "innings_complete")
        /\ games[g].current_innings = 2
        /\ games[g].max_overs = 1
        /\ games[g].first_innings_overs = <<1, 0>>
        /\ games[g].balls = 0

\* The end condition of an innings in progress: a limit has been reached.
LimitReached(game) ==
    \/ (Finite(game.max_wickets) /\ game.wickets >= game.max_wickets)
    \/ (Finite(game.max_overs) /\ game.balls >= game.max_overs * 6)

\* C7: no match is in innings 1 with its players on turn while the end
\* condition of innings 1 holds.
C7_NoPlayPastEnd ==
    \A g \in DOMAIN games :
        (Playing(games[g]) /\ games[g].current_innings = 1) =>
            ~LimitReached(games[g])

\* C8: whenever a match has a target, the target is the runs of innings 1
\* plus one, and it is at least 1.
C8_TargetIsFirstInningsPlusOne ==
    \A g \in DOMAIN games :
        games[g].target # NoNum =>
            /\ games[g].target = games[g].score[1] + 1
            /\ games[g].target >= 1

\* C9: a match has a target exactly when it is in innings 2.
C9_TargetIffSecondInnings ==
    \A g \in DOMAIN games :
        (games[g].target # NoNum) <=> (games[g].current_innings = 2)

\* C10: with a finite wicket limit the wickets of the active innings never
\* exceed the limit, and they equal it only in a match whose final message
\* has been shown (no button is left to play on).
C10_WicketsWithinLimit ==
    \A g \in DOMAIN games :
        Finite(games[g].max_wickets) =>
            /\ games[g].wickets <= games[g].max_wickets
            /\ (games[g].wickets = games[g].max_wickets => keyboard[g] = "none")

\* C11: in every match of the dictionary the over sequence has as many
\* entries as balls were bowled in the current over of the active innings
\* (balls mod 6): it is empty after every sixth ball and after an innings
\* change, and one longer after any other resolved ball (stated for a match
\* whose callbacks all came from the keyboard it showed).
C11_OverSequenceLength ==
    \A g \in DOMAIN games :
        stale = 0 => Len(games[g].this_over) = games[g].balls % 6

\* C12: once the roles are assigned, and for as long as the match is in the
\* dictionary, the batsman and the bowler are two different players and they
\* are the creator and the joiner of the match.
C12_RolesAreThePlayers ==
    \A g \in DOMAIN games :
        Playing(games[g]) =>
            /\ games[g].batsman # games[g].bowler
            /\ {games[g].batsman, games[g].bowler}
                  = {games[g].creator, games[g].joiner}

\* Innings 2 of a match is being played after an innings of two balls: the
\* creator and the joiner hold the two roles.
C12_Witness ==
    \E g \in DOMAIN games :
        /\ Playing(games[g])
        /\ games[g].current_innings = 2
        /\ games[g].first_innings_overs = <<0, 2>>
        /\ games[g].balls = 1
        /\ games[g].batsman = games[g].joiner
        /\ games[g].bowler = games[g].creator

\* C13: once the roles of a match are assigned, a step changes them only at
\* the change from innings 1 to innings 2, where batsman and bowler are
\* exchanged; every other step, a repeated toss_ or choice_ callback
\* included, leaves batsman and bowler as they are.
C13_RolesChangeOnlyAtInningsChange ==
    [][\A g \in DOMAIN games :
          (Playing(games[g]) /\ g \in DOMAIN games') =>
              IF games[g].current_innings = 1 /\ games'[g].current_innings = 2
              THEN /\ games'[g].batsman = games[g].bowler
                   /\ games'[g].bowler = games[g].batsman
              ELSE /\ games'[g].batsman = games[g].batsman
                   /\ games'[g].bowler = games[g].bowler
      ]_vars

\* C14: the result shown for a completed match is determined by the final
\* score of innings 2: a score of at least the target gives the innings-2
\* batsman as winner, by max_wickets - wickets wickets ("comfortably" with
\* unlimited wickets); a score of target - 1 gives a tie (winner "No one",
\* margin "Match tied"); a lower score gives the innings-2 bowler as winner,
\* by target - score - 1 runs (stated for a match whose callbacks all came
\* from the keyboard it showed).
C14_ResultFollowsFinalScore ==
    [][\A g \in DOMAIN games :
          (/\ \E u \in Users, w \in BowlNums : OnBowl(g, u, w)
           /\ last'.reply = "match_complete"
           /\ stale' = 0) =>
              LET game == games[g]
                  s == last'.summary
                  runs2 == s.second_innings[1]
                  wickets == s.second_innings[2]
              IN  IF runs2 >= game.target
                  THEN /\ s.winner = game.batsman
                       /\ IF Finite(game.max_wickets)
                          THEN /\ s.margin = "wickets"
                               /\ s.margin_n = game.max_wickets - wickets
                          ELSE s.margin = "comfortably"
                  ELSE IF runs2 = game.target - 1
                  THEN s.winner = "No one" /\ s.margin = "Match tied"
                  ELSE /\ s.winner = game.bowler
                       /\ s.margin = "runs"
                       /\ s.margin_n = game.target - runs2 - 1
      ]_vars

\* The match's message shows the buttons of the batsman or of the bowler.
AwaitsPlay(g) == keyboard[g] \in {"bat", "bowl"}

\* C15: no match of the dictionary is in innings 2 awaiting a batsman's or a
\* bowler's number while the runs of innings 2 have reached the target.
C15_NoPlayAfterChase ==
    \A g \in DOMAIN games :
        (/\ games[g].current_innings = 2
         /\ games[g].target # NoNum
         /\ AwaitsPlay(g)) => games[g].score[2] < games[g].target

\* C16: the ball that ends innings 2 removes the match from the dictionary,
\* also when the final message could not be built or delivered (stated for a
\* match whose callbacks all came from the keyboard it showed).
C16_CompletedMatchRemoved ==
    [][\A g \in DOMAIN games :
          (/\ \E u \in Users, w \in BowlNums : OnBowl(g, u, w)
           /\ last'.reply \in Completed
           /\ stale' = 0) => g \notin DOMAIN games'
      ]_vars

\* C17: the ball that ends innings 2 produces the summary of the match, and
\* the ball that produces the summary removes the match, so that no further
\* ball is resolved on it and no second summary is produced (stated for a
\* match whose callbacks all came from the keyboard it showed).
C17_SummaryExactlyOnce ==
    [][\A g \in DOMAIN games :
          (/\ \E u \in Users, w \in BowlNums : OnBowl(g, u, w)
           /\ stale' = 0) =>
              /\ last'.reply \in Completed => last'.reply = "match_complete"
              /\ last'.reply = "match_complete" => g \notin DOMAIN games'
      ]_vars

\* C18: a join_ callback of the creator, and a join_ callback of anyone once a
\* joiner is set, is refused and changes neither the match nor its message;
\* the joiner of a match is never its creator and, once set, never changes.
C18_DuplicateJoinRejected ==
    [][\A g \in DOMAIN games :
          /\ \A u \in AnyUser :
                (/\ u = games[g].creator \/ games[g].joiner # NoUser
                 /\ OnJoin(g, u)) =>
                    /\ games' = games
                    /\ keyboard' = keyboard
                    /\ last' = Reply("join", IF u = games[g].creator
                                             THEN "own_game" ELSE "two_players")
          /\ g \in DOMAIN games' =>
                /\ games'[g].joiner # games'[g].creator
                /\ games[g].joiner # NoUser => games'[g].joiner = games[g].joiner
      ]_vars

\* A third user pressed Join on a match that already had its two players and
\* was refused.
C18_Witness ==
    \E g \in DOMAIN games :
        /\ last = Reply("join", "two_players")
        /\ games[g].joiner # NoUser
        /\ games[g].toss_winner # NoUser

\* The toss winner the running program computes.
TossWinnerOf(game, choice, dice1, dice2) ==
    IF Main THEN TossWinner(game, choice, dice1, dice2)
    ELSE Updates_bott_TossWinner(game, choice, dice1, dice2)

\* C19: a toss_ callback is accepted only from the choosing player, who is
\* the joiner; for every pair of dice the toss winner is the caller when the
\* parity of the sum is the one called and the other player otherwise (odd
\* called, dice 3 and 4: the caller), so that after an accepted call the toss
\* winner is the creator or the joiner.
C19_TossWinnerByParity ==
    [][\A g \in DOMAIN games, u \in AnyUser, c \in {"odd", "even"} :
          OnToss(g, u, c) =>
              LET game == games[g]
                  other == IF u = game.creator THEN game.joiner ELSE game.creator
              IN  IF u # game.choosing_player
                  THEN games' = games
                  ELSE /\ u = game.joiner
                       /\ \A dice1 \in Dice, dice2 \in Dice :
                             TossWinnerOf(game, c, dice1, dice2) =
                                 IF (dice1 + dice2) % 2 = (IF c = "odd" THEN 1 ELSE 0)
                                 THEN u ELSE other
                       /\ TossWinnerOf(game, "odd", 3, 4) = u
                       /\ games'[g].toss_winner \in {game.creator, game.joiner}
                       /\ games'[g].toss_winner \in
                             {TossWinnerOf(game, c, dice1, dice2) :
                                 dice1 \in Dice, dice2 \in Dice}
      ]_vars

\* The joiner called the toss and lost it: the creator is the toss winner.
C19_Witness ==
    \E g \in DOMAIN games :
        /\ last = Reply("toss", "toss_result")
        /\ games[g].choosing_player = games[g].joiner
        /\ games[g].toss_winner = games[g].creator
        /\ games[g].batsman = NoUser

\* C20: a wicket limit that is set and finite lies in 1..10, and an over
\* limit that is set and finite lies in 1..50 (stated for a match whose
\* callbacks all came from the keyboard it showed).
C20_LimitsInRange ==
    \A g \in DOMAIN games :
        stale = 0 =>
            /\ Finite(games[g].max_wickets) => games[g].max_wickets \in 1..10
            /\ Finite(games[g].max_overs) => games[g].max_overs \in 1..50

\* The match the suspended handler works on is what the handler itself has
\* made of the match it found: untouched during the animation, the ball
\* counted and nothing else during the over break.
OnlyOwnWrites ==
    /\ running.game_id \in DOMAIN games
    /\ games[running.game_id] =
           IF running.pc = "over_break"
           THEN Counts(running.seen, running.seen.batsman_choice, running.bowl_num)
           ELSE running.seen

\* The step ends the suspended handler with the outcome of the whole handler
\* on the match it found.
SerialOutcome ==
    IF running.op = "toss"
    THEN /\ games'[running.game_id].toss_winner \in
               {TossWinnerOf(running.seen, running.choice, dice1, dice2) :
                   dice1 \in Dice, dice2 \in Dice}
         /\ games'[running.game_id] =
               [running.seen EXCEPT
                   !.toss_winner = games'[running.game_id].toss_winner,
                   !.status = "choosing"]
         /\ keyboard' = [keyboard EXCEPT ![running.game_id] = "choice"]
         /\ last' = Reply("toss", "toss_result")
    ELSE Ends(Counts(running.seen, running.seen.batsman_choice, running.bowl_num))

\* C21: while handle_toss or handle_bowl is suspended at a delay, the only
\* step taken is the next step of that handler: no other update is handled,
\* the match is what the handler itself has made of the match it found (the
\* ball counted and the end check still to come, during the over break), and
\* the handler ends with the outcome the whole handler has on the match it
\* found, as if it had run in one step.
C21_HandlersAreIndivisible ==
    [][running.op # "none" =>
          /\ OnlyOwnWrites
          /\ running' # running
          /\ running'.op \in {"none", running.op}
          /\ running'.op = "none" => SerialOutcome
      ]_vars

\* The sixth ball of a one-over first innings is counted and the handler
\* sleeps through the over break: the innings has not been changed yet.
C21_Witness ==
    \E g \in DOMAIN games :
        /\ running.op = "bowl"
        /\ running.pc = "over_break"
        /\ running.game_id = g
        /\ games[g].current_innings = 1
        /\ games[g].max_overs = 1
        /\ games[g].balls = 6
        /\ should_end_innings(games[g])

\* A batsman's number is pending: it was stored and the match's message shows
\* the bowler's buttons.
Pending(g) == games[g].batsman_choice # NoNum /\ keyboard[g] = "bowl"

\* C22: a bat_ callback of the batsman while a batsman's number is pending is
\* refused and leaves the stored number, and the match, as they are.
C22_PendingChoiceKept ==
    [][\A g \in GameIds, u \in Users, n \in AnyBatNums :
          (/\ g \in DOMAIN games
           /\ Playing(games[g])
           /\ u = games[g].batsman
           /\ Pending(g)
           /\ OnBat(g, u, n)) =>
              /\ games'[g].batsman_choice = games[g].batsman_choice
              /\ games' = games
              /\ last'.reply # "bat_ok"
      ]_vars

\* The numbers the keyboards of keys.py offer.
InRange(n) == n \in 1..6

\* C23: a bat_ or bowl_ callback with a number outside 1..6 changes no match,
\* and the ball a bowl_ callback resolves has a batsman's number and a
\* bowler's number in 1..6 (stated for a match that received every callback
\* in the phase of its keyboard).
C23_NumbersInRange ==
    [][\A g \in GameIds, u \in Users :
          stale' = 0 =>
              /\ \A n \in AnyBatNums :
                    (~InRange(n) /\ OnBat(g, u, n)) => games' = games
              /\ \A n \in AnyBowlNums :
                    OnBowl(g, u, n) =>
                        \/ games' = games
                        \/ InRange(n) /\ InRange(games[g].batsman_choice)
      ]_vars

\* The configuration of a match is complete: its mode, wicket limit and over
\* limit are all set.
Configured(game) ==
    /\ game.mode # NoMode
    /\ game.max_wickets # NoNum
    /\ game.max_overs # NoNum

\* C24: a join_ callback on a match whose configuration is not complete is
\* refused and leaves the match as it is, so that every match with a joiner
\* (a match that has reached the toss) has its mode, wicket limit and over
\* limit set.
C24_JoinNeedsConfiguration ==
    [][\A g \in DOMAIN games :
          /\ \A u \in Users :
                (~Configured(games[g]) /\ OnJoin(g, u)) =>
                    /\ games' = games
                    /\ last'.reply # "joined"
          /\ (g \in DOMAIN games' /\ games'[g].joiner # NoUser) =>
                Configured(games'[g])
      ]_vars

\* A mode_, wickets_ or overs_ callback for match g is handled.
ConfigurationStep(g) ==
    \/ \E m \in Modes : OnMode(g, m)
    \/ \E n \in WicketNums : OnWickets(g, n)
    \/ \E n \in OverNums : OnOvers(g, n)

\* C25: once a match has a joiner, a mode_, wickets_ or overs_ callback
\* changes neither its mode, nor its wicket limit, nor its over limit, nor
\* its status.
C25_ConfigurationFixedAfterJoin ==
    [][\A g \in DOMAIN games :
          (games[g].joiner # NoUser /\ ConfigurationStep(g)) =>
              /\ g \in DOMAIN games'
              /\ games'[g].mode = games[g].mode
              /\ games'[g].max_wickets = games[g].max_wickets
              /\ games'[g].max_overs = games[g].max_overs
              /\ games'[g].status = games[g].status
      ]_vars

\* C26: the toss winner of a match is assigned by one toss_ callback: a
\* toss_ callback for a match whose toss winner is set is refused and leaves
\* the toss winner and the status of the match as they are, and no other
\* step changes a toss winner that is set.
C26_TossWinnerSetOnce ==
    [][\A g \in DOMAIN games :
          games[g].toss_winner # NoUser =>
              /\ g \in DOMAIN games' =>
                    games'[g].toss_winner = games[g].toss_winner
              /\ \A u \in Users, c \in {"odd", "even"} :
                    OnToss(g, u, c) =>
                        /\ games' = games
                        /\ last'.reply # "toss_result"
      ]_vars

\* C27: a choice_ callback for a match whose toss is resolved is accepted
\* only from the toss winner.  With "bat" the toss winner becomes the batsman
\* and the other player the bowler, with "bowl" the toss winner becomes the
\* bowler and the other player the batsman; nothing else in the match
\* changes.  A choice_ callback from anyone else is answered "only toss
\* winner can choose" and changes neither the match nor its message.
C27_ChoiceByTossWinner ==
    [][\A g \in DOMAIN games, u \in Users, c \in {"bat", "bowl"} :
          (games[g].toss_winner # NoUser /\ OnChoice(g, u, c)) =>
              LET game == games[g]
                  other == IF game.toss_winner = game.creator
                           THEN game.joiner ELSE game.creator
              IN  IF u # game.toss_winner
                  THEN /\ games' = games
                       /\ keyboard' = keyboard
                       /\ last' = Reply("choice", "only_toss_winner")
                  ELSE /\ other # game.toss_winner
                       /\ games' = [games EXCEPT ![g] =
                             [game EXCEPT
                                 !.batsman = IF c = "bat" THEN game.toss_winner ELSE other,
                                 !.bowler = IF c = "bat" THEN other ELSE game.toss_winner]]
                       /\ last' = Reply("choice", "match_starting")
      ]_vars

\* The player who lost the toss pressed a choice button and was refused: the
\* roles are still to be assigned.
C27_Witness ==
    \E g \in DOMAIN games :
        /\ last = Reply("choice", "only_toss_winner")
        /\ games[g].toss_winner # NoUser
        /\ games[g].batsman = NoUser
        /\ games[g].bowler = NoUser

\* The limits of the match are the ones of its mode.
LimitsOfMode(game) ==
    IF game.mode = "survival"
    THEN game.max_wickets = 1 /\ game.max_overs = Inf
    ELSE IF game.mode = "quick"
    THEN game.max_wickets = Inf /\ Finite(game.max_overs)
    ELSE /\ game.mode = "classic"
         /\ Finite(game.max_wickets)
         /\ Finite(game.max_overs)

\* C28: in every match whose roles are assigned (an innings is in progress)
\* the limits agree with the mode: survival has a wicket limit of 1 and no
\* over limit, quick has no wicket limit and a finite over limit, classic
\* has both limits finite.
C28_LimitsAgreeWithMode ==
    \A g \in DOMAIN games :
        Playing(games[g]) => LimitsOfMode(games[g])

\* C29: the ball that ends innings 1 leaves the match in innings 2 with no
\* wicket fallen, no ball bowled and an empty over sequence; the runs, the
\* wickets and the balls of innings 1, that ball included, are stored as the
\* first-innings figures; the runs of innings 1 stay on the board, the runs
\* of innings 2 are 0, and mode, wicket limit, over limit, creator, joiner
\* and toss winner are as before.
C29_InningsChange ==
    [][\A g \in DOMAIN games, u \in Users, w \in BowlNums :
          (/\ g \in DOMAIN games'
           /\ games[g].current_innings = 1
           /\ games'[g].current_innings = 2
           /\ BallBowled(g, u, w)) =>
              LET game == games[g]
                  after == games'[g]
                  out == w = game.batsman_choice
                  runs == game.score[1] + (IF out THEN 0 ELSE game.batsman_choice)
                  wickets == game.wickets + (IF out THEN 1 ELSE 0)
                  balls == game.balls + 1
              IN  /\ after.wickets = 0
                  /\ after.balls = 0
                  /\ after.this_over = <<>>
                  /\ after.first_innings_score = runs
                  /\ after.first_innings_wickets = wickets
                  /\ after.first_innings_overs = <<balls \div 6, balls % 6>>
                  /\ after.score = <<runs, 0>>
                  /\ after.mode = game.mode
                  /\ after.max_wickets = game.max_wickets
                  /\ after.max_overs = game.max_overs
                  /\ after.creator = game.creator
                  /\ after.joiner = game.joiner
                  /\ after.toss_winner = game.toss_winner
      ]_vars

\* A survival innings of a run ball and a wicket has ended: innings 2 starts
\* from nothing, and 4 runs, 1 wicket and 0.2 overs are stored.
C29_Witness ==
    \E g \in DOMAIN games :
        /\ last = Reply("bowl", "innings_complete")
        /\ games[g].mode = "survival"
        /\ games[g].current_innings = 2
        /\ games[g].score = <<4, 0>>
        /\ games[g].wickets = 0
        /\ games[g].balls = 0
        /\ games[g].first_innings_score = 4
        /\ games[g].first_innings_wickets = 1
        /\ games[g].first_innings_overs = <<0, 2>>

\* The step handles a bowl_ callback of the bowler of match g while a
\* batsman's number is stored: the ball is resolved.
Bowled(g) ==
    /\ last'.op = "bowl"
    /\ \E u \in Users, w \in BowlNums : BallBowled(g, u, w)

\* C30: a resolved ball adds exactly 1 to the balls of the innings it is
\* bowled in (the innings change then sets the counter of the new innings to
\* 0), and no other step changes the balls of a match.
C30_BallsChangeOnlyByBowling ==
    [][\A g \in DOMAIN games :
          IF Bowled(g)
          THEN IF g \notin DOMAIN games'
               THEN last'.summary.second_innings[3] = games[g].balls + 1
               ELSE IF games'[g].current_innings # games[g].current_innings
               THEN /\ games'[g].balls = 0
                    /\ games'[g].first_innings_overs =
                          <<(games[g].balls + 1) \div 6, (games[g].balls + 1) % 6>>
               ELSE games'[g].balls = games[g].balls + 1
          ELSE g \in DOMAIN games' => games'[g].balls = games[g].balls
      ]_vars

\* The boundary and six counters of innings i.
BoundariesOf(game, i) ==
    IF Main THEN game.boundaries[i]
    ELSE IF i = 1 THEN game.first_innings_boundaries
    ELSE game.second_innings_boundaries

SixesOf(game, i) ==
    IF Main THEN game.sixes[i]
    ELSE IF i = 1 THEN game.first_innings_sixes
    ELSE game.second_innings_sixes

\* A resolved ball of match g that left the match in the dictionary counted
\* a boundary when four holds and a six when six holds, in the innings it
\* was bowled in, and left the counters of the other innings alone.
CountedAs(g, four, six) ==
    LET i == games[g].current_innings
        other == 3 - i
    IN  /\ BoundariesOf(games'[g], i) =
              BoundariesOf(games[g], i) + (IF four THEN 1 ELSE 0)
        /\ SixesOf(games'[g], i) = SixesOf(games[g], i) + (IF six THEN 1 ELSE 0)
        /\ BoundariesOf(games'[g], other) = BoundariesOf(games[g], other)
        /\ SixesOf(games'[g], other) = SixesOf(games[g], other)

Fresh(game, creator_id) ==
    /\ game = (IF Main THEN create_game(creator_id)
               ELSE Updates_bott_create_game(creator_id))
    /\ game.creator = creator_id
    /\ game.status = "config"
    /\ game.current_innings = 1
    /\ game.this_over = <<>>
    /\ game.score = <<0, 0>>
    /\ game.wickets = 0
    /\ game.balls = 0
    /\ \A i \in 1..2 : BoundariesOf(game, i) = 0 /\ SixesOf(game, i) = 0
    /\ game.dot_balls = 0
    /\ game.joiner = NoUser

\* Every match of the dictionary other than g is in it after the step, as it
\* was.
OthersKept(g) ==
    \A h \in DOMAIN games \ {g} : h \in DOMAIN games' /\ games'[h] = games[h]

\* C32: /gameon of a registered user adds one match under an id that no match
\* of the dictionary has, with status 'config', innings 1, an empty over
\* sequence, no runs, wickets, balls, boundaries, sixes or dot balls and no
\* joiner, and leaves every other match as it is.
C32_CreateMatch ==
    [][\A u \in Users, g \in TwoGameIds :
          (last'.reply = "modes" /\ OnGameon(u, g)) =>
              /\ g \notin DOMAIN games
              /\ DOMAIN games' = DOMAIN games \cup {g}
              /\ Fresh(games'[g], u)
              /\ OthersKept(g)
      ]_vars

\* A second match was created while the first one is being played: the first
\* has its ball, the second is new.
C32_Witness ==
    /\ last = Reply("gameon", "modes")
    /\ DOMAIN games = TwoGameIds
    /\ games["g1"].balls = 1
    /\ Fresh(games["g2"], games["g2"].creator)

\* A callback of match g was handled in the step (the reply carries the name
\* of the handler that gave it).
Addressed(g) ==
    \/ last'.op = "mode" /\ \E m \in Modes : OnMode(g, m)
    \/ last'.op = "wickets" /\ \E n \in WicketNums : OnWickets(g, n)
    \/ last'.op = "overs" /\ \E n \in OverNums : OnOvers(g, n)
    \/ last'.op = "join" /\ \E u \in Users : OnJoin(g, u)
    \/ last'.op = "toss" /\ \E u \in Users, c \in {"odd", "even"} : OnToss(g, u, c)
    \/ last'.op = "choice" /\
          \E u \in Users, c \in {"bat", "bowl"} : OnChoice(g, u, c)
    \/ last'.op = "bat" /\ \E u \in Users, n \in BatNums : OnBat(g, u, n)
    \/ last'.op = "bowl" /\ \E u \in Users, n \in BowlNums : OnBowl(g, u, n)
    \/ last'.op = "retry" /\ OnRetry(g)

\* C33: a match is taken out of the dictionary only by the ball that completes
\* it or by an admin's /stopgames; /stopgames of an admin empties the
\* dictionary and /stopgames of any other user leaves it as it is; a step that
\* changes or removes a match handles no callback of another match.
C33_RemovalByCompletionOrStop ==
    [][/\ \A g \in DOMAIN games :
             g \notin DOMAIN games' =>
                 \/ last' = Reply("stopgames", "stopped")
                 \/ /\ last'.reply \in Completed
                    /\ \E u \in Users, n \in BowlNums : OnBowl(g, u, n)
       /\ \A u \in Users :
             (last'.op = "stopgames" /\ OnStopGames(u)) =>
                 IF u \in BOT_ADMINS
                 THEN DOMAIN games' = {}
                 ELSE games' = games
       /\ \A g \in TwoGameIds : ~OthersKept(g) => ~Addressed(g)
      ]_vars

\* The first match was completed and removed while the second one, which has
\* had its ball, stays.
C33_Witness ==
    /\ last.op = "bowl"
    /\ last.reply \in Completed
    /\ DOMAIN games = {"g2"}
    /\ games["g2"].balls = 1

\* C34: in a match with a finite over limit the balls of the active innings
\* are at most six times the limit, and fewer while the match's message shows
\* the batsman's or the bowler's buttons.
C34_BallsWithinOvers ==
    \A g \in DOMAIN games :
        Finite(games[g].max_overs) =>
            /\ games[g].balls <= games[g].max_overs * 6
            /\ AwaitsPlay(g) => games[g].balls < games[g].max_overs * 6

\* The innings of match g have begun and its over limit is finite.
Begun(g) ==
    /\ g \in DOMAIN games
    /\ Playing(games[g])
    /\ AwaitsPlay(g)
    /\ Finite(games[g].max_overs)

\* C35: with a batsman and a bowler who go on pressing numbers in turn, a
\* match with a finite over limit whose innings have begun leaves innings 1,
\* and it is completed and removed from the dictionary.
C35_MatchTerminates ==
    \A g \in GameIds :
        /\ (Begun(g) /\ games[g].current_innings = 1) ~>
               (g \notin DOMAIN games \/ games[g].current_innings = 2)
        /\ Begun(g) ~> (g \notin DOMAIN games)

\* C36: in innings 2, while the match's message shows the batsman's or the
\* bowler's buttons, the runs needed (target minus the runs of innings 2) are
\* at least 1 and, with a finite over limit, the balls left (six times the
\* limit minus the balls bowled) are at least 1.
C36_ChaseStillOpen ==
    \A g \in DOMAIN games :
        (games[g].current_innings = 2 /\ AwaitsPlay(g)) =>
            /\ games[g].target # NoNum
            /\ games[g].target - games[g].score[2] >= 1
            /\ Finite(games[g].max_overs) =>
                   games[g].max_overs * 6 - games[g].balls >= 1

\* C37: when the ball that completes a match of finite wicket limit gives the
\* win to the chasing side, the wickets fallen in innings 2 are fewer than the
\* limit and the margin reported is between 1 and the limit.
C37_WicketsMarginPositive ==
    [][\A g \in DOMAIN games :
          (/\ last'.reply = "match_complete"
           /\ last'.summary.margin = "wickets"
           /\ Finite(games[g].max_wickets)
           /\ \E u \in Users, w \in BowlNums : OnBowl(g, u, w)) =>
              /\ last'.summary.second_innings[2] < games[g].max_wickets
              /\ last'.summary.margin_n \in 1..games[g].max_wickets
      ]_vars

\* What store_first_innings keeps of innings 1, with the runs and the
\* boundary and six counters of innings 1.
FirstInnings(game) ==
    << game.score[1], BoundariesOf(game, 1), SixesOf(game, 1),
       game.first_innings_score, game.first_innings_wickets,
       game.first_innings_overs >>

\* C38: the innings number of a match changes only from 1 to 2, and a step
\* taken while the match is in innings 2 leaves the runs of innings 1, the
\* boundary and six counters of innings 1 and the stored first innings as
\* they are.
C38_InningsOnlyForward ==
    [][\A g \in DOMAIN games \cap DOMAIN games' :
          /\ games'[g].current_innings # games[g].current_innings =>
                 (games[g].current_innings = 1 /\ games'[g].current_innings = 2)
          /\ games[g].current_innings = 2 =>
                 FirstInnings(games'[g]) = FirstInnings(games[g])
      ]_vars

\* The steps of match g so far: a second player joined, the toss has a
\* winner, the roles are set.
Joined(game) == game.joiner # NoUser
Tossed(game) == Joined(game) /\ game.toss_winner # NoUser
Chosen(game) == Tossed(game) /\ Playing(game)

\* C39: a toss call is accepted only in a match a second player has joined,
\* a bat/bowl choice only in a match whose toss has been called, a batsman's
\* number only in a match whose roles have been chosen, and a ball is
\* resolved only in such a match with a batsman's number stored.
C39_OrderOfPlay ==
    [][\A g \in DOMAIN games :
          /\ (/\ last' = Reply("toss", "toss_result")
              /\ \E u \in Users, c \in {"odd", "even"} : OnToss(g, u, c))
                 => Joined(games[g])
          /\ (/\ last' = Reply("choice", "match_starting")
              /\ \E u \in Users, c \in {"bat", "bowl"} : OnChoice(g, u, c))
                 => Tossed(games[g])
          /\ (/\ last' = Reply("bat", "bat_ok")
              /\ \E u \in Users, n \in BatNums : OnBat(g, u, n))
                 => Chosen(games[g])
          /\ (/\ last'.op = "bowl"
              /\ last'.reply \in Resolved
              /\ \E u \in Users, n \in BowlNums : OnBowl(g, u, n))
                 => (Chosen(games[g]) /\ games[g].batsman_choice # NoNum)
      ]_vars

\* The first ball of a match was resolved, after the join, the toss and the
\* choice of roles.
C39_Witness ==
    /\ last = Reply("bowl", "ball")
    /\ \E g \in DOMAIN games :
          /\ Chosen(games[g])
          /\ games[g].balls = 1
          /\ games[g].current_innings = 1

====
